---------------------------- MODULE Spec2Model ----------------------------
(***************************************************************************)
(* fairseq/models/fconv.py: the convolutional encoder/decoder model.       *)
(*                                                                         *)
(* Tensors are modelled over the ring Z_7, one scalar per channel vector   *)
(* (the channel axis is collapsed), so every tensor is a matrix indexed    *)
(* by its first two axes and tagged with its layout ("BTC" batch-major,    *)
(* "TBC" time-major).  sqrt(0.5) is the ring element 2 (2*2 = 4 = 1/2),    *)
(* dropout is the identity (evaluation mode / dropout = 0).                *)
(***************************************************************************)
EXTENDS Integers, Sequences, FiniteSets, TLC

VARIABLES
    args,                 \* arguments of the last FConvDecoder(...) call
    decoder,              \* the FConvDecoder object built from them
    encoder,              \* the FConvEncoder object
    params,               \* parameter store: weight name -> table
    state_dict,           \* persisted state handed to upgrade_state_dict
    upgrade_calls,        \* history: calls of upgrade_state_dict
    migrations,           \* history: calls that re-derived the weight norm
    enc_result,           \* outcome of the last FConvEncoder.forward
    is_incremental_eval,  \* FairseqIncrementalDecoder._is_incremental_eval
    incremental_state,    \* cached encoder_out and per-layer input buffers
    input_tokens,         \* target prefix (batch x time) given to forward
    encoder_out,          \* encoder output pair given to the last forward
    result,               \* value returned by the last forward
    first_enc,            \* history: pair supplied when the cache was filled
    enc_fixed,            \* history: every step of this run got first_enc
    row_origin,           \* history: the reorders since the first step, composed
    last_op               \* history: the last operation performed

buildVars == <<args, decoder, encoder, params, state_dict,
               upgrade_calls, migrations, enc_result>>
decodeVars == <<is_incremental_eval, incremental_state, input_tokens,
                encoder_out, result, first_enc, enc_fixed, row_origin, last_op>>
vars == <<buildVars, decodeVars>>

---------------------------------------------------------------------------
(* Bounds of the model *)
MaxLayers == 2
MaxLen == 2
MaxUpgrades == 2

(* Program constants *)
DecoderVersion == 2

Vocab == {1, 2}
Mod(x) == x % 7
SqrtHalf == 2

\* (out_channels, kernel_size) pairs a convolution stack is built from
LayerSpecs == { <<8, 3>>, <<16, 1>>, <<8, 2>> }
StacksOfLen(n) == [1..n -> LayerSpecs]
Stacks == UNION { StacksOfLen(n) : n \in 1..MaxLayers }
\* the presets' stacks: one pair repeated, as in '[(256, 3)] * 3'
UniformStacks == { [i \in 1..n |-> c] : n \in 1..MaxLayers, c \in LayerSpecs }

RECURSIVE SeqSum(_)
SeqSum(s) == IF s = <<>> THEN 0 ELSE Head(s) + SeqSum(Tail(s))

---------------------------------------------------------------------------
(* Construction *)

\* values of the attention argument: a Python bool, a list, a tuple or
\* anything else; list elements are Python values written as strings
AttnElems == {"True", "False", "0"}
Truthy(e) == e = "True"
IsBool(e) == e \in {"True", "False"}

AttnLists == UNION { [1..n -> AttnElems] : n \in 0..(MaxLayers + 1) }
AttnTuples == { [i \in 1..n |-> "True"] : n \in 0..(MaxLayers + 1) }
AttentionArgs ==
    { [kind |-> "bool", val |-> <<b>>] : b \in {"True", "False"} }
    \cup { [kind |-> "list", val |-> l] : l \in AttnLists }
    \cup { [kind |-> "tuple", val |-> l] : l \in AttnTuples }
    \cup { [kind |-> "other", val |-> <<>>] }

EmbedDims == { <<512, 256>>, <<256, 256>> }

BuildArgs ==
    [convolutions : UniformStacks, attention : AttentionArgs,
     share_embed : BOOLEAN, dims : EmbedDims]

\* fconv.py 144-146: a bool is expanded to one flag per layer
ExpandAttention(attention, convolutions) ==
    IF attention.kind = "bool"
    THEN [kind |-> "list", val |-> [i \in 1..Len(convolutions) |-> attention.val[1]]]
    ELSE attention

\* fconv.py 147: the check that raises ValueError
AttentionRejected(attention, convolutions) ==
    attention.kind # "list" \/ Len(attention.val) # Len(convolutions)

\* fconv.py 162: causal padding of a decoder convolution
PadBroken(kernel_size) == kernel_size \div 2
Pad(kernel_size) == kernel_size - 1

\* fconv.py 163-164: a projection exists where the channel width changes
HasProjection(convolutions, i) ==
    LET in_channels == IF i = 1 THEN convolutions[1][1] ELSE convolutions[i - 1][1]
    IN  in_channels # convolutions[i][1]

\* fconv.py 168-169: layer i gets an AttentionLayer when attention[i] is truthy
AttentionModules(attention) == [i \in DOMAIN attention |-> Truthy(attention[i])]

\* fconv.py 172-179: the weight fc3 uses
Fc3WeightUntied(share_embed) == "decoder.fc3.weight"
Fc3Weight(share_embed) ==
    IF share_embed THEN "decoder.embed_tokens.weight" ELSE "decoder.fc3.weight"

NoDecoder ==
    [status |-> "none", convolutions |-> <<>>, padding |-> <<>>, projections |-> <<>>,
     attention |-> <<>>, embed_weight |-> "", fc3_weight |-> "",
     version |-> 0, wn_dim |-> <<>>]

\* FConvDecoder.__init__
FConvDecoderInit(a) ==
    LET attention == ExpandAttention(a.attention, a.convolutions)
        n == Len(a.convolutions)
    IN  IF AttentionRejected(attention, a.convolutions)
        THEN [NoDecoder EXCEPT !.status = "ValueError"]
        ELSE IF a.share_embed /\ a.dims[2] # a.dims[1]
        THEN [NoDecoder EXCEPT !.status = "AssertionError"]
        ELSE [status |-> "ok",
              convolutions |-> a.convolutions,
              padding |-> [i \in 1..n |-> Pad(a.convolutions[i][2])],
              projections |-> [i \in 1..n |-> HasProjection(a.convolutions, i)],
              attention |-> AttentionModules(attention.val),
              embed_weight |-> "decoder.embed_tokens.weight",
              fc3_weight |-> Fc3Weight(a.share_embed),
              version |-> DecoderVersion,
              wn_dim |-> [i \in 1..n |-> 2]]

\* FConvModel.__init__ (fconv.py 24)
CountAttentionLayers(dec) ==
    Cardinality({ i \in DOMAIN dec.attention : dec.attention[i] })

NoEncoder == [built |-> FALSE, num_attention_layers |-> -1]

\* initial parameter tables (Embedding / Linear initialisation)
InitParams ==
    [p \in {"decoder.embed_tokens.weight", "decoder.fc3.weight"} |->
        IF p = "decoder.embed_tokens.weight"
        THEN [v \in Vocab |-> v + 2]
        ELSE [v \in Vocab |-> 2 * v]]

NoArgs ==
    [convolutions |-> <<>>, attention |-> [kind |-> "none", val |-> <<>>],
     share_embed |-> FALSE, dims |-> <<0, 0>>]
\* a persisted state: version 0 stands for a missing 'decoder.version' tag
NoStateDict == [loaded |-> FALSE, version |-> 0, initial |-> 0]
NoEncResult == [status |-> "none", grad_scale_den |-> 0]
NoResult ==
    [x |-> [lay |-> "none", d |-> <<>>], attn |-> <<>>, trace |-> <<>>, scores |-> <<>>]

---------------------------------------------------------------------------
(* Tensors: [lay, d] with d a matrix over the first two axes *)

\* sequences and matrices built entry by entry
Vec(n, F(_)) == [i \in 1..n |-> F(i)] \o <<>>
Mat(m, n, F(_, _)) == Vec(m, LAMBDA i : Vec(n, LAMBDA j : F(i, j)))

\* v computed once, before K is applied to it: a statement sequence
With(v, K(_)) == CHOOSE r \in { K(w) : w \in {v} } : TRUE

Tensor(lay, d) == [lay |-> lay, d |-> d]
Err == [lay |-> "error", d |-> <<>>]
IsErr(x) == x.lay = "error"
Dim0(x) == Len(x.d)
Dim1(x) == IF x.d = <<>> THEN 0 ELSE Len(x.d[1])
SameShape(x, y) == Dim0(x) = Dim0(y) /\ Dim1(x) = Dim1(y)

SwapLayout(lay) ==
    CASE lay = "BTC" -> "TBC"
      [] lay = "TBC" -> "BTC"
      [] OTHER -> lay

\* x.transpose(0, 1)
Transpose(x) ==
    IF IsErr(x) THEN Err
    ELSE Tensor(SwapLayout(x.lay), Mat(Dim1(x), Dim0(x), LAMBDA j, i : x.d[i][j]))

\* x + y of equal shapes; a shape mismatch raises
Add(x, y) ==
    IF IsErr(x) \/ IsErr(y) \/ ~SameShape(x, y) THEN Err
    ELSE Tensor(x.lay, Mat(Dim0(x), Dim1(x), LAMBDA i, j : Mod(x.d[i][j] + y.d[i][j])))

\* x * w for a scalar w
Scale(x, w) ==
    IF IsErr(x) THEN Err
    ELSE Tensor(x.lay, Mat(Dim0(x), Dim1(x), LAMBDA i, j : Mod(x.d[i][j] * w)))

\* the weights Linear / LinearizedConv1d / Embedding draw at construction
LinearWeight(name, l) ==
    CASE name = "fc1" -> 3
      [] name = "fc2" -> 5
      [] name = "projection" -> 1 + ((3 * l + 1) % 6)
      [] name = "in_projection" -> 1 + ((2 * l + 3) % 6)
      [] name = "out_projection" -> 1 + ((5 * l + 2) % 6)
      [] OTHER -> 1
ConvWeight(l, j, half) == 1 + ((2 * l + 3 * j + half) % 6)
PositionWeight(pos) == Mod(2 * pos + 1)

\* Linear (fconv.py 292-297): bias is zero
Linear(name, l, x) == Scale(x, LinearWeight(name, l))

\* sigmoid and exp as ring / natural valued tables
Sigmoid(v) == Mod(v * v + 1)
Exp(v) == v + 1

\* F.glu(x, dim=2): the first half gated by the sigmoid of the second
GLU(x) ==
    IF IsErr(x) THEN Err
    ELSE Tensor(x.lay, Mat(Dim0(x), Dim1(x),
                           LAMBDA i, j : Mod(x.d[i][j][1] * Sigmoid(x.d[i][j][2]))))

\* the convolution over axis 0 with zero padding on both sides (ConvTBC)
ConvTBCForward(l, kernel_size, padding, x) ==
    LET n == Dim0(x) + 2 * padding - kernel_size + 1
        XP(m, b) == IF (m - padding) \in 1..Dim0(x) THEN x.d[m - padding][b] ELSE 0
        Tap(t, b, half) ==
            Mod(SeqSum(Vec(kernel_size, LAMBDA j : ConvWeight(l, j, half) * XP(t + j - 1, b))))
    IN  IF IsErr(x) \/ n < 1 THEN Err
        ELSE Tensor(x.lay, Mat(n, Dim1(x), LAMBDA t, b : <<Tap(t, b, 1), Tap(t, b, 2)>>))

\* LinearizedConvolution.incremental_forward: x is batch x 1, buf the
\* layer's input buffer (<<>>: None), one row of kernel_size frames per
\* batch row
NewBuffer(kernel_size, x, buf) ==
    IF kernel_size = 1 THEN buf
    ELSE Vec(Dim0(x), LAMBDA b :
            IF buf = <<>>
            THEN Vec(kernel_size, LAMBDA j : IF j = kernel_size THEN x.d[b][Dim1(x)] ELSE 0)
            ELSE Tail(buf[b]) \o <<x.d[b][Dim1(x)]>>)

IncrementalForward(l, kernel_size, x, buf) ==
    LET nb == NewBuffer(kernel_size, x, buf)
        Frame(b, j) == IF kernel_size = 1 THEN x.d[b][Dim1(x)] ELSE nb[b][j]
        Tap(b, half) ==
            Mod(SeqSum(Vec(kernel_size, LAMBDA j : ConvWeight(l, j, half) * Frame(b, j))))
    IN  IF IsErr(x) \/ (buf # <<>> /\ Len(buf) # Dim0(x))
        THEN [y |-> Err, buf |-> buf]
        ELSE [y |-> Tensor(x.lay, Vec(Dim0(x), LAMBDA b : << <<Tap(b, 1), Tap(b, 2)>> >>)),
              buf |-> nb]

\* LinearizedConvolution.forward in either mode
ConvForward(l, inc, x, buf) ==
    IF inc
    THEN IncrementalForward(l, decoder.convolutions[l][2], x, buf)
    ELSE [y |-> ConvTBCForward(l, decoder.convolutions[l][2], decoder.padding[l], x),
          buf |-> buf]

\* LinearizedConvolution.remove_future_timesteps
RemoveFutureTimesteps(l, inc, x) ==
    LET padding == decoder.padding[l]
    IN  IF IsErr(x) THEN Err
        ELSE IF ~inc /\ decoder.convolutions[l][2] > 1 /\ padding > 0
        THEN IF padding >= Dim0(x) THEN Err
             ELSE Tensor(x.lay, SubSeq(x.d, 1, Dim0(x) - padding))
        ELSE x

---------------------------------------------------------------------------
(* AttentionLayer.forward (fconv.py 104-125) *)

\* s * sqrt(1 / s) for source length s, in the ring
AttnScale(s) == CASE s = 1 -> 1 [] s = 2 -> 4 [] s = 4 -> 2 [] OTHER -> 1

\* F.softmax over the source axis, in twelfths
Softmax(scores) ==
    LET total == SeqSum(Vec(Len(scores), LAMBDA s : Exp(scores[s])))
    IN  Vec(Len(scores), LAMBDA s : (12 * Exp(scores[s])) \div total)

NoAttention == [x |-> Err, attn_scores |-> <<>>]

AttentionLayer(l, x, target_embedding, enc) ==
    LET srclen == Dim1(enc[2])
        \* fconv.py 117-125: context vector, rescaling, output projection
        Attend(weights) ==
            [x |-> Scale(Add(Linear("out_projection", l,
                                    Scale(Tensor(x.lay, Mat(Dim0(x), Dim1(x), LAMBDA b, t :
                                              Mod(SeqSum(Vec(srclen, LAMBDA s :
                                                      weights[b][t][s] * enc[2].d[b][s]))))),
                                          AttnScale(srclen))),
                             x),
                         SqrtHalf),
             attn_scores |-> weights]
        \* fconv.py 109-115: scores against encoder_out[0], softmax
        Score(q) ==
            IF IsErr(q) \/ enc[1].lay # "BCT" \/ Dim0(q) # Dim0(enc[1])
               \/ Dim0(q) # Dim0(enc[2]) \/ Dim1(enc[1]) # srclen
            THEN NoAttention
            ELSE Attend(Mat(Dim0(q), Dim1(q), LAMBDA b, t :
                     Softmax(Vec(srclen, LAMBDA s : Mod(q.d[b][t] * enc[1].d[b][s])))))
    IN  Score(Scale(Add(Linear("in_projection", l, x), target_embedding), SqrtHalf))

---------------------------------------------------------------------------
(* FConvEncoder.forward (fconv.py 55-87), for a one-layer (8, 3) encoder *)

EncoderKernel == 3
SrcSentences == << <<1, 2>>, <<2, 2>> >>
EncoderEmbed(tok) == Mod(3 * tok + 1)

\* Embedding plus positional embedding of a batch of token rows
EmbedBatch(Table(_), toks, Pos(_, _)) ==
    Tensor("BTC", Vec(Len(toks), LAMBDA b :
                     Vec(Len(toks[b]), LAMBDA t : Mod(Table(toks[b][t]) + Pos(b, t)))))

FConvEncoderValue(src_tokens) ==
    LET Pos(b, t) == PositionWeight(t)
        input_embedding == EmbedBatch(EncoderEmbed, src_tokens, Pos)
        x1 == Transpose(Linear("fc1", 0, input_embedding))
        conv == GLU(ConvTBCForward(0, EncoderKernel, (EncoderKernel - 1) \div 2, x1))
        x2 == Scale(Add(conv, x1), SqrtHalf)
        x == Linear("fc2", 0, Transpose(x2))
        y == Scale(Add(x, input_embedding), SqrtHalf)
    IN  <<x, y>>

\* batches of bsz source sentences and the encoder outputs for them
SrcBatches(bsz) ==
    { Vec(bsz, LAMBDA b : SrcSentences[1 + ((b + k) % 2)]) : k \in {0, 1} }
EncoderOuts(bsz) == { FConvEncoderValue(src) : src \in SrcBatches(bsz) }

---------------------------------------------------------------------------
(* FConvDecoder: incremental state, forward *)

NumLayers == Len(decoder.convolutions)
ClearedState == [encoder_out |-> <<>>, input_buffer |-> Vec(NumLayers, LAMBDA l : <<>>)]

\* FairseqIncrementalDecoder.get_incremental_state / set_incremental_state:
\* the store is read and written only in incremental evaluation
GetIncrementalState(inc, ist) == IF inc THEN ist.encoder_out ELSE <<>>
SetIncrementalState(inc, ist, value) ==
    IF inc THEN [ist EXCEPT !.encoder_out = <<value>>] ELSE ist

\* encoder_a.transpose(1, 2).contiguous()
TransposeEnc(a) == IF IsErr(a) THEN Err ELSE Tensor("BCT", a.d)

\* FConvDecoder._split_encoder_out
split_always(inc, ist, enc_out) ==
    LET res == <<TransposeEnc(enc_out[1]), enc_out[2]>>
    IN  [result |-> res, ist |-> SetIncrementalState(inc, ist, res)]
split_encoder_out(inc, ist, enc_out) ==
    LET cached_result == GetIncrementalState(inc, ist)
        res == <<TransposeEnc(enc_out[1]), enc_out[2]>>
    IN  IF cached_result # <<>>
        THEN [result |-> cached_result[1], ist |-> ist]
        ELSE [result |-> res, ist |-> SetIncrementalState(inc, ist, res)]

\* FConvDecoder._transpose_unless_incremental_eval
transpose_always(inc, x) == Transpose(x)
transpose_unless_incremental_eval(inc, x) == IF inc THEN x ELSE Transpose(x)

\* fconv.py 186: the positions are computed from the whole input
TruncatedTokens(inc, toks) ==
    IF inc THEN Vec(Len(toks), LAMBDA b : <<toks[b][Len(toks[b])]>>) ELSE toks
PositionTokens(inc, toks) == toks

\* fconv.py 188-190: only the last token is kept in incremental mode
LastTokens(inc, toks) ==
    IF inc THEN Vec(Len(toks), LAMBDA b : <<toks[b][Len(toks[b])]>>) ELSE toks

\* LearnedPositionalEmbedding.forward: one position per token, and in
\* incremental evaluation the position of the newest token only
embed_positions(inc, toks) ==
    IF inc THEN Vec(Len(toks), LAMBDA b : <<PositionWeight(Len(toks[b]))>>)
    ELSE Vec(Len(toks), LAMBDA b : Vec(Len(toks[b]), LAMBDA t : PositionWeight(t)))

\* fconv.py 205: the divisor of the averaged attention
num_attn_layers == Len(decoder.attention)

DivScores(w, n) ==
    Vec(Len(w), LAMBDA b : Vec(Len(w[b]), LAMBDA t :
        Vec(Len(w[b][t]), LAMBDA s : w[b][t][s] \div n)))
AddScores(u, w) ==
    Vec(Len(u), LAMBDA b : Vec(Len(u[b]), LAMBDA t :
        Vec(Len(u[b][t]), LAMBDA s : u[b][t][s] + w[b][t][s])))

Event(at, l, x, other) == [at |-> at, layer |-> l, x |-> x.lay, other |-> other.lay]

\* fconv.py 214-225: the attention block of layer l
AttentionBlock(l, inc, x, avg, target_embedding, enc) ==
    LET Accumulate(a_in, att) ==
            [x |-> transpose_unless_incremental_eval(inc, att.x),
             avg |-> IF IsErr(att.x) THEN avg
                     ELSE IF avg = <<>> THEN DivScores(att.attn_scores, num_attn_layers)
                     ELSE AddScores(avg, DivScores(att.attn_scores, num_attn_layers)),
             seen |-> <<Event("attention", l, a_in, target_embedding)>>,
             scores |-> IF IsErr(att.x) THEN <<>> ELSE <<att.attn_scores>>]
        Attend(a_in) == Accumulate(a_in, AttentionLayer(l, a_in, target_embedding, enc))
    IN  Attend(transpose_unless_incremental_eval(inc, x))

\* fconv.py 207-228: layer l of the convolution stack applied to st
ConvLayer(l, inc, st, target_embedding, enc) ==
    LET Residual(residual, c, a) ==
            [x |-> Scale(Add(a.x, residual), SqrtHalf),
             avg |-> a.avg,
             bufs |-> [st.bufs EXCEPT ![l] = c.buf],
             scores |-> st.scores \o a.scores,
             trace |-> st.trace \o <<Event("conv", l, st.x, st.x)>> \o a.seen
                       \o <<Event("residual", l, a.x, residual)>>]
        Attention(residual, c, g) ==
            Residual(residual, c,
                     IF decoder.attention[l]
                     THEN AttentionBlock(l, inc, g, st.avg, target_embedding, enc)
                     ELSE [x |-> g, avg |-> st.avg, seen |-> <<>>, scores |-> <<>>])
        Conv(residual, c) ==
            Attention(residual, c, GLU(RemoveFutureTimesteps(l, inc, c.y)))
    IN  Conv(IF decoder.projections[l] THEN Linear("projection", l, st.x) ELSE st.x,
             ConvForward(l, inc, st.x, st.bufs[l]))

\* fconv.py 206: the loop over the layers l..
RECURSIVE ConvStack(_, _, _, _, _)
ConvStack(l, inc, st, target_embedding, enc) ==
    IF l > NumLayers THEN st
    ELSE With(ConvLayer(l, inc, st, target_embedding, enc),
              LAMBDA next : ConvStack(l + 1, inc, next, target_embedding, enc))

\* fc3 (fconv.py 236): one logit per vocabulary entry
Fc3(x) ==
    IF IsErr(x) THEN Err
    ELSE Tensor(x.lay, Mat(Dim0(x), Dim1(x), LAMBDA i, j :
                  Vec(Cardinality(Vocab),
                      LAMBDA v : Mod(x.d[i][j] * params[decoder.fc3_weight][v]))))

\* fconv.py 185-195: token plus positional embedding of the input
TargetEmbedding(inc, toks) ==
    LET Emb(tok) == params[decoder.embed_weight][tok]
        Zero(b, t) == 0
    IN  Add(EmbedBatch(Emb, LastTokens(inc, toks), Zero),
            Tensor("BTC", embed_positions(inc, PositionTokens(inc, toks))))

\* FConvDecoder.forward
forward(inc, ist, toks, enc_out) ==
    LET Return(sp, st, x2, x3, target_embedding) ==
            [x |-> x3,
             attn |-> IF IsErr(x3) THEN <<>> ELSE st.avg,
             trace |-> st.trace \o <<Event("fc2", 0, x2, target_embedding)>>,
             scores |-> st.scores,
             ist |-> IF inc THEN [sp.ist EXCEPT !.input_buffer = st.bufs] ELSE ist]
        Project(sp, st, x2, target_embedding) ==
            Return(sp, st, x2, Fc3(Linear("fc2", 0, x2)), target_embedding)
        Output(sp, st, target_embedding) ==
            Project(sp, st, transpose_unless_incremental_eval(inc, st.x), target_embedding)
        Stack(sp, target_embedding) ==
            With(ConvStack(1, inc,
                           [x |-> transpose_unless_incremental_eval(
                                      inc, Linear("fc1", 0, target_embedding)),
                            avg |-> <<>>, bufs |-> sp.ist.input_buffer, trace |-> <<>>,
                            scores |-> <<>>],
                           target_embedding, sp.result),
                 LAMBDA st : Output(sp, st, target_embedding))
        Embed(sp) ==
            With(TargetEmbedding(inc, toks), LAMBDA target_embedding :
                 Stack(sp, target_embedding))
    IN  With(split_encoder_out(inc, ist, enc_out), Embed)

\* index_select(0, new_order) of a batch-first sequence
Gather(rows, new_order) == Vec(Len(new_order), LAMBDA r : rows[new_order[r]])
GatherTensor(x, new_order) == Tensor(x.lay, Gather(x.d, new_order))

\* FairseqIncrementalDecoder.reorder_incremental_state: one indexed gather
\* applied to every cached entry
BaseReorderIncrementalState(ist, new_order) ==
    [encoder_out |->
        IF ist.encoder_out = <<>> THEN <<>>
        ELSE << <<GatherTensor(ist.encoder_out[1][1], new_order),
                  GatherTensor(ist.encoder_out[1][2], new_order)>> >>,
     input_buffer |->
        Vec(Len(ist.input_buffer), LAMBDA l :
            IF ist.input_buffer[l] = <<>> THEN <<>>
            ELSE Gather(ist.input_buffer[l], new_order))]

\* FConvDecoder.reorder_incremental_state (fconv.py 240-242)
reorder_skipped(ist, new_order) == ist
reorder_incremental_state(ist, new_order) ==
    BaseReorderIncrementalState(ist, new_order)

---------------------------------------------------------------------------
(* Construction, parameter updates and state loading *)

InitBuild ==
    /\ args = NoArgs
    /\ decoder = NoDecoder
    /\ encoder = NoEncoder
    /\ params = InitParams
    /\ state_dict = NoStateDict
    /\ upgrade_calls = 0
    /\ migrations = 0
    /\ enc_result = NoEncResult

InitDecode ==
    /\ is_incremental_eval = FALSE
    /\ incremental_state = ClearedState
    /\ input_tokens = <<>>
    /\ encoder_out = <<>>
    /\ result = NoResult
    /\ first_enc = <<>>
    /\ enc_fixed = TRUE
    /\ row_origin = <<>>
    /\ last_op = "init"

\* build_model (fconv.py 386-404): encoder, decoder, then FConvModel
BuildModel(a) ==
    /\ decoder.status = "none"
    /\ args' = a
    /\ decoder' = FConvDecoderInit(a)
    /\ encoder' = IF decoder'.status = "ok"
                  THEN [built |-> TRUE,
                        num_attention_layers |-> CountAttentionLayers(decoder')]
                  ELSE encoder
    /\ UNCHANGED <<params, state_dict, upgrade_calls, migrations,
                   enc_result>>
    /\ UNCHANGED decodeVars

\* FConvEncoder.forward, the gradient scale of fconv.py 82:
\* 1.0 / (2.0 * num_attention_layers), kept as its denominator
GradScale(n) ==
    IF 2 * n = 0
    THEN [status |-> "ZeroDivisionError", grad_scale_den |-> 0]
    ELSE [status |-> "ok", grad_scale_den |-> 2 * n]

EncoderForward ==
    /\ encoder.built
    /\ enc_result' = GradScale(encoder.num_attention_layers)
    /\ UNCHANGED <<args, decoder, encoder, params, state_dict,
                   upgrade_calls, migrations>>
    /\ UNCHANGED decodeVars

\* an in-place update of one row of a weight the decoder uses
OptimizerStep(p, v, val) ==
    /\ decoder.status = "ok"
    /\ p \in {decoder.embed_weight, decoder.fc3_weight}
    /\ params[p][v] # val
    /\ params' = [params EXCEPT ![p][v] = val]
    /\ UNCHANGED <<args, decoder, encoder, state_dict, upgrade_calls, migrations,
                   enc_result>>
    /\ UNCHANGED decodeVars

\* a persisted state arrives with version tag ver (0: no tag)
LoadStateDict(ver) ==
    /\ decoder.status = "ok"
    /\ ~state_dict.loaded
    /\ state_dict' = [loaded |-> TRUE, version |-> ver, initial |-> ver]
    /\ UNCHANGED <<args, decoder, encoder, params, upgrade_calls,
                   migrations, enc_result>>
    /\ UNCHANGED decodeVars

\* fconv.py 249: state_dict.get('decoder.version', torch.Tensor([1]))[0]
TaggedVersion(sd) == IF sd.version = 0 THEN 1 ELSE sd.version

\* fconv.py 255: the version written after the migration
StampedVersion == 1

\* FConvDecoder.upgrade_state_dict
UpgradeStateDict ==
    /\ state_dict.loaded
    /\ upgrade_calls < MaxUpgrades
    /\ upgrade_calls' = upgrade_calls + 1
    /\ IF TaggedVersion(state_dict) < 2
       THEN /\ decoder' = [decoder EXCEPT
                              !.wn_dim = [i \in DOMAIN decoder.wn_dim |-> 0]]
            /\ state_dict' = [state_dict EXCEPT !.version = StampedVersion]
            /\ migrations' = migrations + 1
       ELSE UNCHANGED <<decoder, state_dict, migrations>>
    /\ UNCHANGED <<args, encoder, params, enc_result>>
    /\ UNCHANGED decodeVars

NextBuild ==
    \/ \E a \in BuildArgs : BuildModel(a)
    \/ EncoderForward
    \/ \E p \in DOMAIN InitParams, v \in Vocab, val \in {5} : OptimizerStep(p, v, val)
    \/ \E ver \in 0..DecoderVersion : LoadStateDict(ver)
    \/ UpgradeStateDict

InitUnbuilt == InitBuild /\ InitDecode
SpecBuild == InitUnbuilt /\ [][NextBuild]_vars

---------------------------------------------------------------------------
(* Decoding: full-sequence scoring and step-by-step generation *)

BatchSize == Len(input_tokens)
EmptyPrefix(bsz) == Vec(bsz, LAMBDA b : <<>>)
Identity(bsz) == Vec(bsz, LAMBDA b : b)
PrefixLen == IF input_tokens = <<>> THEN 0 ELSE Len(input_tokens[1])
TokenBatches(bsz) == UNION { [1..bsz -> [1..n -> Vocab]] : n \in 1..MaxLen }
Strip(r) == [x |-> r.x, attn |-> r.attn, trace |-> r.trace, scores |-> r.scores]

BoolLists(n) == [1..n -> {"True", "False"}]
DecodeArgs(stacks, attentions) ==
    { [convolutions |-> c, attention |-> f,
       share_embed |-> FALSE, dims |-> <<512, 256>>] : c \in stacks, f \in attentions }
ListAttention ==
    { [kind |-> "list", val |-> f] : f \in UNION { BoolLists(n) : n \in 1..MaxLayers } }
BoolAttention == { [kind |-> "bool", val |-> <<b>>] : b \in {"True", "False"} }

\* a model built by build_model from a, about to decode batches of bsz rows
Built(a, bsz) ==
    /\ args = a
    /\ decoder = FConvDecoderInit(a)
    /\ decoder.status = "ok"
    /\ encoder = [built |-> TRUE,
                  num_attention_layers |-> CountAttentionLayers(decoder)]
    /\ params = InitParams
    /\ state_dict = NoStateDict
    /\ upgrade_calls = 0
    /\ migrations = 0
    /\ enc_result = NoEncResult
    /\ is_incremental_eval = FALSE
    /\ incremental_state = ClearedState
    /\ input_tokens = EmptyPrefix(bsz)
    /\ encoder_out = <<>>
    /\ result = NoResult
    /\ first_enc = <<>>
    /\ enc_fixed = TRUE
    /\ row_origin = Identity(bsz)
    /\ last_op = "init"

\* a full-sequence forward over toks
ForwardFull(toks, enc) ==
    LET Call(r) ==
            /\ result' = Strip(r)
            /\ incremental_state' = r.ist
    IN  /\ ~is_incremental_eval
        /\ Call(forward(FALSE, incremental_state, toks, enc))
        /\ input_tokens' = toks
        /\ encoder_out' = enc
        /\ last_op' = "full"
        /\ UNCHANGED <<is_incremental_eval, first_enc, enc_fixed, row_origin>>
        /\ UNCHANGED buildVars

\* one generation step: the prefix grows by the column col
ForwardStep(col, enc) ==
    LET filled == incremental_state.encoder_out # <<>>
        Call(toks, r) ==
            /\ result' = Strip(r)
            /\ incremental_state' = r.ist
            /\ input_tokens' = toks
        Step(toks) == Call(toks, forward(TRUE, incremental_state, toks, enc))
    IN  /\ is_incremental_eval
        /\ PrefixLen < MaxLen
        /\ Step(Vec(Len(input_tokens), LAMBDA b : Append(input_tokens[b], col[b])))
        /\ encoder_out' = enc
        /\ first_enc' = IF filled THEN first_enc ELSE <<enc>>
        /\ enc_fixed' = (enc_fixed /\ (~filled \/ first_enc = <<enc>>))
        /\ last_op' = "step"
        /\ UNCHANGED <<is_incremental_eval, row_origin>>
        /\ UNCHANGED buildVars

\* FairseqIncrementalDecoder.clear_incremental_state, at the start of a run
StartRun ==
    /\ incremental_state' = ClearedState
    /\ input_tokens' = EmptyPrefix(BatchSize)
    /\ encoder_out' = <<>>
    /\ result' = NoResult
    /\ first_enc' = <<>>
    /\ enc_fixed' = TRUE
    /\ row_origin' = Identity(BatchSize)

\* FairseqIncrementalDecoder.incremental_eval(mode): entering starts a run
\* with an empty state, leaving discards the state
IncrementalEval(mode) ==
    /\ is_incremental_eval # mode
    /\ is_incremental_eval' = mode
    /\ StartRun
    /\ last_op' = "incremental_eval"
    /\ UNCHANGED buildVars

ClearIncrementalState ==
    /\ is_incremental_eval
    /\ StartRun
    /\ last_op' = "clear"
    /\ UNCHANGED is_incremental_eval
    /\ UNCHANGED buildVars

\* the generator reorders its hypotheses and the decoder's cache alike
ReorderIncrementalState(new_order) ==
    /\ is_incremental_eval
    /\ incremental_state' = reorder_incremental_state(incremental_state, new_order)
    /\ input_tokens' = Gather(input_tokens, new_order)
    /\ row_origin' = IF first_enc = <<>> THEN row_origin
                      ELSE Gather(row_origin, new_order)
    /\ encoder_out' = <<>>
    /\ result' = NoResult
    /\ last_op' = "reorder"
    /\ UNCHANGED <<is_incremental_eval, first_enc, enc_fixed>>
    /\ UNCHANGED buildVars

Next ==
    \/ \E toks \in TokenBatches(BatchSize), enc \in EncoderOuts(BatchSize) :
          ForwardFull(toks, enc)
    \/ \E col \in [1..BatchSize -> Vocab], enc \in EncoderOuts(BatchSize) :
          ForwardStep(col, enc)
    \/ \E mode \in BOOLEAN : IncrementalEval(mode)
    \/ ClearIncrementalState
    \/ \E new_order \in [1..BatchSize -> 1..BatchSize] :
          ReorderIncrementalState(new_order)

\* single-hypothesis decoding with every stack and every attention pattern
Init == \E a \in DecodeArgs(Stacks, ListAttention) : Built(a, 1)
Spec == Init /\ [][Next]_vars

\* two hypotheses of one source batch decoded side by side, with the presets'
\* uniform stacks: the generator encodes the batch once, passes that encoder
\* output at every step and reorders the state between the steps
BeamSrcTokens == <<SrcSentences[1], SrcSentences[2]>>
NextBeam ==
    \/ \E col \in [1..BatchSize -> Vocab] :
          ForwardStep(col, FConvEncoderValue(BeamSrcTokens))
    \/ \E new_order \in [1..BatchSize -> 1..BatchSize] :
          ReorderIncrementalState(new_order)
    \/ \E mode \in BOOLEAN : IncrementalEval(mode)
    \/ ClearIncrementalState
InitBeam == \E a \in DecodeArgs(UniformStacks, BoolAttention) : Built(a, 2)
SpecBeam == InitBeam /\ [][NextBeam]_vars

---------------------------------------------------------------------------
(* Properties of construction and state loading (SpecBuild) *)

\* C4: upgrade_state_dict applied to a state whose version tag is missing or
\* below 2 migrates once and stamps the state with the current version, so
\* a second application migrates nothing; a state already at the current
\* version is left unchanged.
C4_UpgradeStampsCurrentVersion ==
    upgrade_calls >= 1 =>
        /\ state_dict.version = DecoderVersion
        /\ migrations = IF state_dict.initial < DecoderVersion THEN 1 ELSE 0

\* C6: construction accepts the attention argument exactly when it is a
\* bool or a sequence of bools with one flag per layer, every other value
\* is a configuration error, and an accepted argument gives layer i an
\* AttentionLayer exactly when flag i is true.
C6_AttentionAcceptedIffBooleanSequence ==
    LET att == args.attention
        n == Len(args.convolutions)
        valid == \/ att.kind = "bool"
                 \/ /\ att.kind \in {"list", "tuple"}
                    /\ Len(att.val) = n
                    /\ \A i \in 1..n : IsBool(att.val[i])
        Flag(i) == IF att.kind = "bool" THEN att.val[1] ELSE att.val[i]
    IN  decoder.status # "none" =>
            /\ valid <=> decoder.status # "ValueError"
            /\ decoder.status = "ok" =>
                   \A i \in 1..n : decoder.attention[i] <=> Flag(i) = "True"

\* C7: for every model that was built, FConvEncoder.forward raises no error
\* and scales the gradient by 1 / (2 * n), n the number of decoder layers
\* with attention.
C7_EncoderForwardNeverRaises ==
    enc_result.status # "none" =>
        /\ enc_result.status = "ok"
        /\ enc_result.grad_scale_den = 2 * CountAttentionLayers(decoder)

\* the row of the embedding table the lookup of token v reads, and the row
\* of the projection weight the logit of v is computed from
EmbeddingRow(v) ==
    Mod(TargetEmbedding(FALSE, << <<v>> >>).d[1][1] - PositionWeight(1))
ProjectionRow(v) == Fc3(Tensor("BTC", << <<1>> >>)).d[1][1][v]

\* C8: with share_embed, construction fails when out_embed_dim differs from
\* embed_dim, and otherwise fc3 and the token embedding use one weight, so
\* that after any update both read the same rows; without share_embed the
\* two weights are distinct.
C8_SharedEmbeddingIsOneWeight ==
    LET accepted == ~AttentionRejected(ExpandAttention(args.attention, args.convolutions),
                                       args.convolutions)
    IN  (decoder.status # "none" /\ accepted) =>
            IF args.share_embed
            THEN IF args.dims[2] # args.dims[1]
                 THEN decoder.status = "AssertionError"
                 ELSE /\ decoder.status = "ok"
                      /\ decoder.fc3_weight = decoder.embed_weight
                      /\ \A v \in Vocab : EmbeddingRow(v) = ProjectionRow(v)
            ELSE /\ decoder.status = "ok"
                 /\ decoder.fc3_weight # decoder.embed_weight

\* a tied model whose shared weight was updated after construction
C8_Witness ==
    /\ decoder.status = "ok"
    /\ args.share_embed
    /\ params[decoder.embed_weight] # InitParams[decoder.embed_weight]
    /\ \A v \in Vocab : EmbeddingRow(v) = ProjectionRow(v)

---------------------------------------------------------------------------
(* Properties of decoding (Spec) *)

\* token batches of the shape of toks, and those that continue toks
TokensLike(toks) == [1..Len(toks) -> [1..Len(toks[1]) -> Vocab]]
AgreeUpTo(a, b, t) == \A r \in 1..Len(a) : \A i \in 1..t : a[r][i] = b[r][i]
Extensions(toks) ==
    { ext \in TokenBatches(Len(toks)) :
        Len(ext[1]) >= Len(toks[1]) /\ AgreeUpTo(toks, ext, Len(toks[1])) }

\* C1: with one encoder output throughout, step k of a token-by-token run
\* from an empty incremental state returns the logits and the averaged
\* attention of position k of one full-sequence forward over the prefix.
C1_IncrementalMatchesFull ==
    (last_op = "step" /\ enc_fixed) =>
        With(forward(FALSE, ClearedState, input_tokens, encoder_out), LAMBDA full :
            /\ ~IsErr(result.x)
            /\ \A b \in 1..BatchSize :
                  /\ result.x.d[b][1] = full.x.d[b][PrefixLen]
                  /\ IF full.attn = <<>> THEN result.attn = <<>>
                     ELSE result.attn # <<>> /\ result.attn[b][1] = full.attn[b][PrefixLen])

\* a second or later step through a layer that has both history and attention
C1_Witness ==
    /\ last_op = "step"
    /\ enc_fixed
    /\ PrefixLen >= 2
    /\ \E l \in 1..NumLayers : decoder.attention[l] /\ decoder.convolutions[l][2] > 1
    /\ result.attn # <<>>
    /\ ~IsErr(result.x)

\* the layer weights, each divided by n, summed
RECURSIVE SumScores(_, _)
SumScores(scores, n) ==
    IF Len(scores) = 1 THEN DivScores(scores[1], n)
    ELSE AddScores(SumScores(SubSeq(scores, 1, Len(scores) - 1), n),
                   DivScores(scores[Len(scores)], n))

\* C2: the averaged attention forward returns is the sum of the attention
\* weights of the layers that have attention, divided by the number of
\* those layers only.
C2_AverageCountsAttentionLayersOnly ==
    (last_op \in {"full", "step"} /\ result.scores # <<>>) =>
        result.attn = SumScores(result.scores, CountAttentionLayers(decoder))

SplitOf(enc) == <<TransposeEnc(enc[1]), enc[2]>>

\* C3, as stated: in incremental mode a step given a pair other than the
\* cached one discards the cached entry and recomputes it, so after every
\* step the cache holds the split of the pair that step was given.
C3_CacheFollowsSuppliedPair ==
    last_op = "step" => incremental_state.encoder_out = <<SplitOf(encoder_out)>>

\* C3, amended: the cached entry is computed from the supplied pair only
\* when nothing is cached, and is then kept (reordered with the batch)
\* whatever pair later steps supply, until the incremental state is cleared.
C3_CacheKeptUntilCleared ==
    IF is_incremental_eval /\ first_enc # <<>>
    THEN incremental_state.encoder_out =
             << <<GatherTensor(SplitOf(first_enc[1])[1], row_origin),
                  GatherTensor(SplitOf(first_enc[1])[2], row_origin)>> >>
    ELSE incremental_state.encoder_out = <<>>

\* a step given a pair other than the cached one, which it leaves cached
C3_Witness ==
    /\ last_op = "step"
    /\ ~enc_fixed
    /\ <<encoder_out>> # first_enc
    /\ SplitOf(encoder_out) # SplitOf(first_enc[1])
    /\ incremental_state.encoder_out = <<SplitOf(first_enc[1])>>

\* C9: the output at position t depends only on the tokens at positions
\* <= t: a full-sequence forward returns one output per input position and
\* changing later tokens leaves position t unchanged; an incremental step
\* returns one output, that of its position under every continuation.
C9_OutputDependsOnPastOnly ==
    /\ last_op = "full" =>
          /\ ~IsErr(result.x)
          /\ Dim0(result.x) = BatchSize /\ Dim1(result.x) = PrefixLen
          /\ \A other \in TokensLike(input_tokens) :
                With(forward(FALSE, ClearedState, other, encoder_out), LAMBDA alt :
                    \A t \in 1..PrefixLen :
                        AgreeUpTo(input_tokens, other, t) =>
                            \A b \in 1..BatchSize : alt.x.d[b][t] = result.x.d[b][t])
    /\ (last_op = "step" /\ enc_fixed) =>
          /\ ~IsErr(result.x)
          /\ Dim0(result.x) = BatchSize /\ Dim1(result.x) = 1
          /\ \A ext \in Extensions(input_tokens) :
                With(forward(FALSE, ClearedState, ext, encoder_out), LAMBDA alt :
                    \A b \in 1..BatchSize : alt.x.d[b][PrefixLen] = result.x.d[b][1])

\* a full-sequence forward through a kernel of width 3 whose last token
\* does reach the last output
C9_Witness ==
    /\ last_op = "full"
    /\ PrefixLen >= 2
    /\ \E l \in 1..NumLayers : decoder.convolutions[l][2] > 1
    /\ \E other \in TokensLike(input_tokens) :
          /\ AgreeUpTo(input_tokens, other, PrefixLen - 1)
          /\ forward(FALSE, ClearedState, other, encoder_out).x.d[1][PrefixLen]
                 # result.x.d[1][PrefixLen]
          /\ forward(FALSE, ClearedState, other, encoder_out).x.d[1][1] = result.x.d[1][1]

\* C10: in full-sequence mode every convolution and residual add works on
\* time-major data, every AttentionLayer call on batch-major data like the
\* target embedding, and fc2 gets batch-major data; in incremental mode no
\* tensor is transposed at any of these points.
C10_LayoutConsistent ==
    /\ last_op \in {"full", "step"} =>
          /\ result.x.lay = "BTC"
          /\ Len(result.trace) = 2 * NumLayers + CountAttentionLayers(decoder) + 1
    /\ last_op = "full" =>
          \A i \in DOMAIN result.trace :
              LET e == result.trace[i]
              IN  CASE e.at = "conv" -> e.x = "TBC"
                    [] e.at = "residual" -> e.x = "TBC" /\ e.other = "TBC"
                    [] e.at = "attention" -> e.x = "BTC" /\ e.other = "BTC"
                    [] e.at = "fc2" -> e.x = "BTC"
    /\ last_op = "step" =>
          \A i \in DOMAIN result.trace :
              result.trace[i].x = "BTC" /\ result.trace[i].other = "BTC"

\* a full-sequence forward through a layer with and a layer without attention
C10_Witness ==
    /\ last_op = "full"
    /\ PrefixLen >= 2
    /\ \E i \in DOMAIN result.trace : result.trace[i].at = "attention"
    /\ \E l \in 1..NumLayers : ~decoder.attention[l]
    /\ result.x.lay = "BTC"

---------------------------------------------------------------------------
(* Properties of reordering (SpecBeam) *)

\* row r of an encoder output pair, as a batch of one
EncRow(enc, r) ==
    <<Tensor(enc[1].lay, <<enc[1].d[r]>>), Tensor(enc[2].lay, <<enc[2].d[r]>>)>>

\* an independent single-hypothesis generation of the tokens toks against
\* enc, after k steps
RECURSIVE SoloRun(_, _, _)
SoloRun(toks, enc, k) ==
    IF k = 0 THEN [ist |-> ClearedState]
    ELSE With(SoloRun(toks, enc, k - 1), LAMBDA prev :
              forward(TRUE, prev.ist, <<SubSeq(toks, 1, k)>>, enc))

===========================================================================
